---- MODULE Spec2Model ----
(***************************************************************************)
(* The container trait lattice of libcollections (traits.rs, lib.rs), the  *)
(* typed allocation functions of liballoc (faux.rs) and the Hash and       *)
(* Hasher traits of libcore (hash/mod.rs).                                 *)
(*                                                                         *)
(* A container is a record [kind, items]: `items` is the sequence of the   *)
(* stored values in the order `foreach` visits them, `kind` the concrete   *)
(* type behind the traits:                                                 *)
(*   "vec"    an unbounded list (List, ResizableList, Deque, Stack),       *)
(*   "set"    a Set (no two equal elements),                               *)
(*   "ring"   a circular buffer of RingCap slots that overwrites its       *)
(*            oldest value when full,                                      *)
(*   "sorted" a SortedContainer (kept in the order of its elements).       *)
(* The methods the traits only declare are modelled from their doc         *)
(* comments; the default method bodies are translated line by line.        *)
(* A closure-driven traversal is modelled by `foreach`, which yields the   *)
(* elements the closure was called on: all of them up to and including the *)
(* first one for which the closure yields true.  A closure is the function *)
(* from the element it is called on to what it returns or assigns.         *)
(*                                                                         *)
(* An Option is a sequence of length at most one: None is <<>>, Some(x)    *)
(* is <<x>>.  A uint is an integer modulo 2^UintBits.                      *)
(***************************************************************************)
EXTENDS Integers, Sequences, FiniteSets, TLC

\* Bounds of the model.
NumVals == 3
MaxLen == 3
MaxOther == 2
RingCap == 2
UintBits == 3
NumKeys == 3
NumMapVals == 2
MaxSize == 2
UsizeBytes == 2

Vals == 1..NumVals
Keys == 1..NumKeys
MapVals == 1..NumMapVals
UintModulus == 2^UintBits
Kinds == {"vec", "set", "ring", "sorted"}

VARIABLES c, m, hasher, last

vars == <<c, m, hasher, last>>

(***************************************************************************)
(* Option                                                                  *)
(***************************************************************************)
None == <<>>

Some(x) == <<x>>

is_none(o) == o = <<>>

is_some(o) == o # <<>>

(***************************************************************************)
(* Sequences used as inputs                                                *)
(***************************************************************************)
SeqsUpTo(S, n) == UNION {[1..k -> S] : k \in 0..n}

NoDup(s) == \A i, j \in DOMAIN s : i # j => s[i] # s[j]

Elems(s) == {s[i] : i \in DOMAIN s}

\* Any container handed in as `other: &C`.
Others == {[kind |-> "vec", items |-> s] : s \in SeqsUpTo(Vals, MaxOther)}

\* Any set handed in as `other: &Self`, in every traversal order.
OtherSets == {[kind |-> "set", items |-> s] : s \in {t \in SeqsUpTo(Vals, MaxOther) : NoDup(t)}}

(***************************************************************************)
(* Collection                                                              *)
(***************************************************************************)
len(self) == Len(self.items)

is_empty_nonzero(self) == len(self) # 0

is_empty(self) == len(self) = 0

(***************************************************************************)
(* Container: foreach                                                      *)
(***************************************************************************)
\* The elements of `order` a closure is called on: it is called on each in
\* turn and no more after the first call that yields true.
\* A closure is a function of the element: yield[x] is what it returns.
Visited(order, yield) ==
    IF \E i \in DOMAIN order : yield[order[i]]
    THEN SubSeq(order, 1, CHOOSE i \in DOMAIN order :
                             yield[order[i]] /\ \A j \in 1..(i-1) : ~yield[order[j]])
    ELSE order

foreach(self, yield) == Visited(self.items, yield)

\* The value a closure `|x| { acc = g[x]; ... }` leaves in acc, from init.
LastAssigned(visited, init, g) ==
    IF visited = <<>> THEN init ELSE g[visited[Len(visited)]]

(***************************************************************************)
(* SearchableContainer                                                     *)
(***************************************************************************)
contains(self, value) == \E i \in DOMAIN self.items : self.items[i] = value

\* let mut found = true;
\* other.foreach(|x| { found = self.contains(x); found });
\* found
\* `calls` are the elements of other the closure, and so contains, ran on.
contains_all(self, other) ==
    LET calls == foreach(other, [x \in Elems(other.items) |-> contains(self, x)])
    IN  [ret |-> LastAssigned(calls, TRUE, [x \in Elems(other.items) |-> contains(self, x)]),
         calls |-> calls]

(***************************************************************************)
(* MutableCollection                                                       *)
(***************************************************************************)
clear(self) == [self EXCEPT !.items = <<>>]

\* fn reserve(&mut self, capacity: uint) {}
reserve(self, capacity) == self

\* fn reserve_exact(&mut self, capacity: uint) {}
reserve_exact(self, capacity) == self

\* uint addition: the sum modulo 2^UintBits.
UintAdd(a, b) == (a + b) % UintModulus

\* self.reserve(self.len() + extra);
\* `calls` are the capacities reserve was called with.
reserve_additional(self, extra) ==
    [c |-> reserve(self, UintAdd(len(self), extra)),
     calls |-> <<UintAdd(len(self), extra)>>]

\* fn shrink_to_fit(&mut self) {}
shrink_to_fit(self) == self

(***************************************************************************)
(* MutableContainer                                                        *)
(***************************************************************************)
InsertSorted(s, v) ==
    LET k == Cardinality({i \in DOMAIN s : s[i] <= v})
    IN  SubSeq(s, 1, k) \o <<v>> \o SubSeq(s, k + 1, Len(s))

\* None if len grew; Some(x) if inserting the value requires x to be removed:
\* a full circular buffer overwrites its oldest value, a Set hands back the
\* original of a duplicate.
swap(self, value) ==
    CASE self.kind = "set" /\ contains(self, value) ->
            [c |-> self, ret |-> Some(value)]
      [] self.kind = "ring" /\ len(self) >= RingCap ->
            [c |-> [self EXCEPT !.items = Tail(self.items) \o <<value>>],
             ret |-> Some(Head(self.items))]
      [] self.kind = "sorted" ->
            [c |-> [self EXCEPT !.items = InsertSorted(self.items, value)],
             ret |-> None]
      [] OTHER ->
            [c |-> [self EXCEPT !.items = Append(self.items, value)],
             ret |-> None]

insert_is_some(self, value) ==
    LET r == swap(self, value) IN [c |-> r.c, ret |-> is_some(r.ret)]

\* self.swap(value).is_none()
insert(self, value) ==
    LET r == swap(self, value) IN [c |-> r.c, ret |-> is_none(r.ret)]

\* Like foreach, but the elements are moved out of the container it runs on.
foreach_move(self, yield) == Visited(self.items, yield)

\* The calls of self.insert(x) the closure makes, one per visited element.
RECURSIVE InsertEach(_, _)
InsertEach(self, calls) ==
    IF calls = <<>> THEN self
    ELSE InsertEach(insert(self, Head(calls)).c, Tail(calls))

insert_all_first_only(self, other) ==
    InsertEach(self, foreach_move(other, [x \in Elems(other.items) |-> TRUE]))

\* other.foreach_move(|x| { self.insert(x); false });
insert_all(self, other) ==
    InsertEach(self, foreach_move(other, [x \in Elems(other.items) |-> FALSE]))

(***************************************************************************)
(* MutableSearchableContainer                                              *)
(***************************************************************************)
IndexOf(s, v) == CHOOSE i \in DOMAIN s : s[i] = v /\ \A j \in 1..(i-1) : s[j] # v

RemoveAt(s, i) == SubSeq(s, 1, i - 1) \o SubSeq(s, i + 1, Len(s))

pop_first_when_absent(self, value) ==
    IF contains(self, value)
    THEN [c |-> [self EXCEPT !.items = RemoveAt(self.items, IndexOf(self.items, value))],
          ret |-> Some(value)]
    ELSE [c |-> [self EXCEPT !.items = SubSeq(self.items, 2, Len(self.items))], ret |-> None]

\* Remove one copy of the value: None if it wasn't found, Some(x) if removed.
pop(self, value) ==
    IF contains(self, value)
    THEN [c |-> [self EXCEPT !.items = RemoveAt(self.items, IndexOf(self.items, value))],
          ret |-> Some(value)]
    ELSE [c |-> self, ret |-> None]

\* self.pop(value).is_some()
remove(self, value) ==
    LET r == pop(self, value) IN [c |-> r.c, ret |-> is_some(r.ret)]

\* while self.remove(value) { count += 1; }
RECURSIVE EraseLoop(_, _, _)
EraseLoop(self, value, count) ==
    LET r == remove(self, value) IN
    IF r.ret THEN EraseLoop(r.c, value, (count + 1) % UintModulus)
    ELSE [c |-> r.c, ret |-> count]

erase_once(self, value) ==
    LET r == remove(self, value) IN [c |-> r.c, ret |-> IF r.ret THEN 1 ELSE 0]

\* let mut count = 0; while self.remove(value) { count += 1; } count
erase(self, value) == EraseLoop(self, value, 0)

\* The calls of self.remove(x) the closure makes, one per visited element.
RECURSIVE RemoveEach(_, _)
RemoveEach(self, calls) ==
    IF calls = <<>> THEN self
    ELSE RemoveEach(remove(self, Head(calls)).c, Tail(calls))

\* The calls of self.erase(x) the closure makes, one per visited element.
RECURSIVE EraseEach(_, _)
EraseEach(self, calls) ==
    IF calls = <<>> THEN self
    ELSE EraseEach(erase(self, Head(calls)).c, Tail(calls))

remove_all_erasing(self, other) ==
    EraseEach(self, foreach(other, [x \in Elems(other.items) |-> FALSE]))

\* other.foreach(|x| { self.remove(x); false });
remove_all(self, other) ==
    RemoveEach(self, foreach(other, [x \in Elems(other.items) |-> FALSE]))

erase_all_removing(self, other) ==
    RemoveEach(self, foreach(other, [x \in Elems(other.items) |-> FALSE]))

\* other.foreach(|x| { self.erase(x); false });
erase_all(self, other) ==
    EraseEach(self, foreach(other, [x \in Elems(other.items) |-> FALSE]))

(***************************************************************************)
(* List, MutableList                                                       *)
(* Indices count from 0; the in-bounds indices are [0, len).               *)
(***************************************************************************)
\* Return the element at the given index or None if out of bounds
get(self, index) ==
    IF index < len(self) THEN Some(self.items[index + 1]) ELSE None

\* Put the value at the given index if it is in-bounds, and return the value
\* that previously occupied that index, or None otherwise
swap_at(self, index, value) ==
    IF index < len(self)
    THEN [c |-> [self EXCEPT !.items[index + 1] = value], ret |-> Some(self.items[index + 1])]
    ELSE [c |-> self, ret |-> None]

insert_at_is_none(self, index, value) ==
    LET r == swap_at(self, index, value) IN [c |-> r.c, ret |-> is_none(r.ret)]

\* self.swap_at(index, value).is_some()
insert_at(self, index, value) ==
    LET r == swap_at(self, index, value) IN [c |-> r.c, ret |-> is_some(r.ret)]

\* Remove the value at the given index if it is in-bounds and return it, or
\* None otherwise; decrements all larger indices.
pop_at(self, index) ==
    IF index < len(self)
    THEN [c |-> [self EXCEPT !.items = RemoveAt(self.items, index + 1)],
          ret |-> Some(self.items[index + 1])]
    ELSE [c |-> self, ret |-> None]

\* self.pop_at(index).is_some()
remove_at(self, index) ==
    LET r == pop_at(self, index) IN [c |-> r.c, ret |-> is_some(r.ret)]

(***************************************************************************)
(* Queue, Stack                                                            *)
(* Declared without bodies or comments; modelled as the FIFO and LIFO      *)
(* contracts over a container that keeps its elements in arrival order.    *)
(***************************************************************************)
Queue_enqueue(self, value) == [self EXCEPT !.items = Append(self.items, value)]

Queue_dequeue_newest(self) ==
    IF self.items = <<>> THEN [c |-> self, ret |-> None]
    ELSE [c |-> [self EXCEPT !.items = SubSeq(self.items, 1, Len(self.items) - 1)],
          ret |-> Some(self.items[Len(self.items)])]

Queue_dequeue(self) ==
    IF self.items = <<>> THEN [c |-> self, ret |-> None]
    ELSE [c |-> [self EXCEPT !.items = Tail(self.items)], ret |-> Some(Head(self.items))]

Queue_peek(self) == IF self.items = <<>> THEN None ELSE Some(Head(self.items))

Stack_push(self, value) == [self EXCEPT !.items = Append(self.items, value)]

Stack_pop_oldest(self) ==
    IF self.items = <<>> THEN [c |-> self, ret |-> None]
    ELSE [c |-> [self EXCEPT !.items = Tail(self.items)], ret |-> Some(Head(self.items))]

Stack_pop(self) ==
    IF self.items = <<>> THEN [c |-> self, ret |-> None]
    ELSE [c |-> [self EXCEPT !.items = SubSeq(self.items, 1, Len(self.items) - 1)],
          ret |-> Some(self.items[Len(self.items)])]

Stack_top(self) == IF self.items = <<>> THEN None ELSE Some(self.items[Len(self.items)])

(***************************************************************************)
(* Deque, ResizableList                                                    *)
(***************************************************************************)
\* MutableSeq::pop: removes the last element from a collection and returns
\* it, or None if it is empty.
MutableSeq_pop(self) ==
    IF self.items = <<>>
    THEN [c |-> self, ret |-> None]
    ELSE [c |-> [self EXCEPT !.items = SubSeq(self.items, 1, Len(self.items) - 1)],
          ret |-> Some(self.items[Len(self.items)])]

\* fn pop_back(&mut self) -> Option<T> { self.pop() }
pop_back(self) == MutableSeq_pop(self)

\* MutableSeq::push: appends an element to the back of a collection.
MutableSeq_push(self, t) == [self EXCEPT !.items = Append(self.items, t)]

push_back_at_front(self, elt) == [self EXCEPT !.items = <<elt>> \o self.items]

\* fn push_back(&mut self, elt: T) { self.push(elt) }
push_back(self, elt) == MutableSeq_push(self, elt)

\* Inserts an element first in the sequence.
push_front(self, elt) == [self EXCEPT !.items = <<elt>> \o self.items]

\* Removes the first element and returns it, or None if the sequence is empty.
pop_front(self) ==
    IF self.items = <<>>
    THEN [c |-> self, ret |-> None]
    ELSE [c |-> [self EXCEPT !.items = Tail(self.items)], ret |-> Some(Head(self.items))]

\* The front element, or None if the sequence is empty.
front(self) == IF self.items = <<>> THEN None ELSE Some(Head(self.items))

\* The back element, or None if the sequence is empty.
back(self) == IF self.items = <<>> THEN None ELSE Some(self.items[Len(self.items)])

\* uint subtraction: the difference modulo 2^UintBits.
UintSub(a, b) == (a - b) % UintModulus

\* for i in range(0, amount) { self.pop_back(); }
RECURSIVE TruncateLoop(_, _, _)
TruncateLoop(self, i, amount) ==
    IF i >= amount THEN self ELSE TruncateLoop(pop_back(self).c, i + 1, amount)

truncate_one_more(self, length) ==
    LET amount == UintSub(len(self), length)
    IN  [c |-> TruncateLoop(self, 0, amount + 1),
         ret |-> IF amount < 0 THEN 0 ELSE amount]

\* let amount = self.len() - len;
\* for i in range(0, amount) { self.pop_back(); }
\* if amount < 0 { 0 } else { amount }
truncate(self, length) ==
    LET amount == UintSub(len(self), length)
    IN  [c |-> TruncateLoop(self, 0, amount),
         ret |-> IF amount < 0 THEN 0 ELSE amount]

(***************************************************************************)
(* Set                                                                     *)
(***************************************************************************)
is_disjoint_self(self, other) ==
    LET calls == foreach(self, [x \in Elems(self.items) |-> contains(self, x)])
    IN  LastAssigned(calls, TRUE, [x \in Elems(self.items) |-> ~contains(self, x)])

\* let result = true;
\* self.foreach(|x| { result = !other.contains(x); !result });
\* result
\* (the source's `result.contains(x)` names a bool; it is read as `other`)
is_disjoint(self, other) ==
    LET calls == foreach(self, [x \in Elems(self.items) |-> contains(other, x)])
    IN  LastAssigned(calls, TRUE, [x \in Elems(self.items) |-> ~contains(other, x)])

\* let result = true;
\* other.foreach(|x| { result = self.contains(x); !result });
\* result
is_subset(self, other) ==
    LET calls == foreach(other, [x \in Elems(other.items) |-> ~contains(self, x)])
    IN  LastAssigned(calls, TRUE, [x \in Elems(other.items) |-> contains(self, x)])

\* other.is_subset(self)
is_superset(self, other) == is_subset(other, self)

\* The four set operations build a new set from two borrowed ones.
difference(self, other) ==
    [kind |-> "set", items |-> SelectSeq(self.items, LAMBDA x : ~contains(other, x))]

symmetric_difference(self, other) ==
    [kind |-> "set", items |-> difference(self, other).items \o difference(other, self).items]

union_of_self_only(self, other) == [kind |-> "set", items |-> self.items]

union(self, other) ==
    [kind |-> "set", items |-> self.items \o difference(other, self).items]

intersection(self, other) ==
    [kind |-> "set", items |-> SelectSeq(self.items, LAMBDA x : contains(other, x))]

(***************************************************************************)
(* SortedContainer                                                         *)
(***************************************************************************)
InRange(x, lo, hi) == (is_none(lo) \/ lo[1] <= x) /\ (is_none(hi) \/ x <= hi[1])

foreach_sorted_unbounded(self, yield, lo, hi) == Visited(self.items, yield)

\* The closure runs on the contents within [lo, hi] in the sorted order of the
\* container, and no more after the first time it yields true; a bound that
\* is None is -infinity or infinity.
foreach_sorted(self, yield, lo, hi) ==
    Visited(SelectSeq(self.items, LAMBDA x : InRange(x, lo, hi)), yield)

min_no_stop(self) ==
    LET calls == foreach_sorted(self, [x \in Elems(self.items) |-> FALSE], None, None)
    IN  LastAssigned(calls, None, [x \in Elems(self.items) |-> Some(x)])

\* let mut min = None;
\* self.foreach_sorted(|x| { min = Some(x); true });
\* min
min(self) ==
    LET calls == foreach_sorted(self, [x \in Elems(self.items) |-> TRUE], None, None)
    IN  LastAssigned(calls, None, [x \in Elems(self.items) |-> Some(x)])

\* let mut max = None;
\* self.foreach_sorted(|x| { max = Some(x); false });
\* max
max(self) ==
    LET calls == foreach_sorted(self, [x \in Elems(self.items) |-> FALSE], None, None)
    IN  LastAssigned(calls, None, [x \in Elems(self.items) |-> Some(x)])

\* The largest of a set of elements, or None if there is none.
LargestOf(S) == IF S = {} THEN None ELSE Some(CHOOSE x \in S : \A y \in S : y <= x)

\* The smallest of a set of elements, or None if there is none.
SmallestOf(S) == IF S = {} THEN None ELSE Some(CHOOSE x \in S : \A y \in S : x <= y)

\* Return the largest element less than the given value, or None
lower_bound_exclusive(self, value) == LargestOf({x \in Elems(self.items) : x < value})

\* Return the largest element less than or equal to the given value, or None
lower_bound_inclusive(self, value) == LargestOf({x \in Elems(self.items) : x <= value})

\* Return the smallest element greater than the given value, or None
upper_bound_exclusive(self, value) == SmallestOf({x \in Elems(self.items) : x > value})

\* Return the largest element greater than or equal to the given value, or None
upper_bound_inclusive(self, value) == LargestOf({x \in Elems(self.items) : x >= value})

(***************************************************************************)
(* MutableSortedContainer                                                  *)
(***************************************************************************)
\* Remove and return the smallest element in the collection, or None if empty
pop_min(self) ==
    IF self.items = <<>> THEN [c |-> self, ret |-> None]
    ELSE [c |-> [self EXCEPT !.items = Tail(self.items)], ret |-> Some(Head(self.items))]

\* Documented with the words of pop_min:
\* remove and return the smallest element in the collection, or None if empty
pop_max(self) ==
    IF self.items = <<>> THEN [c |-> self, ret |-> None]
    ELSE [c |-> [self EXCEPT !.items = Tail(self.items)], ret |-> Some(Head(self.items))]

(***************************************************************************)
(* Map, MutableMap, SortedMap: a map is the sequence of its <<key, value>> *)
(* entries in the order its unordered foreach visits them.                 *)
(***************************************************************************)
MapKeys(self) == {self[i][1] : i \in DOMAIN self}

MapIndex(self, key) == CHOOSE i \in DOMAIN self : self[i][1] = key

Map_foreach(self, yield) == Visited(self, yield)

\* The value associated with the key, or None if none exists.
Map_find(self, key) ==
    IF key \in MapKeys(self) THEN Some(self[MapIndex(self, key)][2]) ELSE None

\* self.find(key).is_some()
Map_contains_key(self, key) == is_some(Map_find(self, key))

Map_swap_appending(self, k, v) ==
    [m |-> Append(self, <<k, v>>), ret |-> Map_find(self, k)]

\* Insert the pair and return the value that was already under the key, or None.
Map_swap(self, k, v) ==
    IF k \in MapKeys(self)
    THEN [m |-> [self EXCEPT ![MapIndex(self, k)] = <<k, v>>],
          ret |-> Some(self[MapIndex(self, k)][2])]
    ELSE [m |-> Append(self, <<k, v>>), ret |-> None]

\* Remove the key and return the value that was under it, or None.
Map_pop(self, k) ==
    IF k \in MapKeys(self)
    THEN [m |-> RemoveAt(self, MapIndex(self, k)),
          ret |-> Some(self[MapIndex(self, k)][2])]
    ELSE [m |-> self, ret |-> None]

\* let min = None;
\* self.foreach(|key, value| { min = Some((key, value)); true });
\* min
SortedMap_min(self) ==
    LET calls == Map_foreach(self, [e \in Elems(self) |-> TRUE])
    IN  LastAssigned(calls, None, [e \in Elems(self) |-> Some(e)])

\* let max = None;
\* self.foreach(|key, value| { max = Some((key, value)); false });
\* max
SortedMap_max(self) ==
    LET calls == Map_foreach(self, [e \in Elems(self) |-> FALSE])
    IN  LastAssigned(calls, None, [e \in Elems(self) |-> Some(e)])

Map_insert_is_some(self, key, value) ==
    LET r == Map_swap(self, key, value) IN [m |-> r.m, ret |-> is_some(r.ret)]

\* self.swap(key, value).is_none()
Map_insert(self, key, value) ==
    LET r == Map_swap(self, key, value) IN [m |-> r.m, ret |-> is_none(r.ret)]

\* self.pop(key).is_some()
Map_remove(self, key) ==
    LET r == Map_pop(self, key) IN [m |-> r.m, ret |-> is_some(r.ret)]

(***************************************************************************)
(* liballoc/faux.rs: typed allocation over the heap.                       *)
(* A call is modelled by its outcome ("ok", "panic" on a failed assert,    *)
(* "abort" on oom), what it returns and the heap calls it made, each with  *)
(* the number of bytes asked for.  `size` is size_of::<T>(), `heap` what   *)
(* the heap call returns.                                                  *)
(***************************************************************************)
null_mut == "null"

EMPTY == "EMPTY"

HeapPtrs == {"p1", "p2"}

\* uint multiplication: the product modulo 2^UintBits.
UintMul(a, b) == (a * b) % UintModulus

\* assert!(len != 0); if size == 0 { EMPTY } else {
\*   let ptr = heap::allocate(size * len, align); if ptr == null_mut() { ::oom(); } ptr }
alloc_array(size, length, heap) ==
    IF length = 0 THEN [outcome |-> "panic", ret |-> null_mut, calls |-> <<>>]
    ELSE IF size = 0 THEN [outcome |-> "ok", ret |-> EMPTY, calls |-> <<>>]
    ELSE [outcome |-> IF heap = null_mut THEN "abort" ELSE "ok",
          ret |-> heap,
          calls |-> <<<<"allocate", UintMul(size, length)>>>>]

\* assert!(len != 0); if size == 0 { ptr } else {
\*   let ptr = reallocate(ptr, size * old_len, size * len, align);
\*   if ptr == null_mut() { ::oom(); } ptr }
realloc_array(ptr, size, old_len, length, heap) ==
    IF length = 0 THEN [outcome |-> "panic", ret |-> null_mut, calls |-> <<>>]
    ELSE IF size = 0 THEN [outcome |-> "ok", ret |-> ptr, calls |-> <<>>]
    ELSE [outcome |-> IF heap = null_mut THEN "abort" ELSE "ok",
          ret |-> heap,
          calls |-> <<<<"reallocate", UintMul(size, length)>>>>]

\* assert!(len != 0); if size == 0 { Ok(()) } else {
\*   let result_size = reallocate_inplace(ptr, size * old_len, size * len, align);
\*   if result_size == usable_size(desired_size, align) { Ok(()) } else { Err(()) } }
\* `fits` is whether the heap's result size equals the usable size.
realloc_array_inplace(ptr, size, old_len, length, fits) ==
    IF length = 0 THEN [outcome |-> "panic", ret |-> "Err", calls |-> <<>>]
    ELSE IF size = 0 THEN [outcome |-> "ok", ret |-> "Ok", calls |-> <<>>]
    ELSE [outcome |-> "ok",
          ret |-> IF fits THEN "Ok" ELSE "Err",
          calls |-> <<<<"reallocate_inplace", UintMul(size, length)>>>>]

\* if size == 0 { } else { deallocate(ptr, size, align); }
dealloc(ptr, size) ==
    IF size = 0 THEN [outcome |-> "ok", ret |-> null_mut, calls |-> <<>>]
    ELSE [outcome |-> "ok", ret |-> null_mut, calls |-> <<<<"deallocate", size>>>>]

\* if size == 0 { } else { deallocate(ptr, size * len, align); }
dealloc_array(ptr, size, length) ==
    IF size = 0 THEN [outcome |-> "ok", ret |-> null_mut, calls |-> <<>>]
    ELSE [outcome |-> "ok", ret |-> null_mut, calls |-> <<<<"deallocate", UintMul(size, length)>>>>]
(***************************************************************************)
(* libcore/hash/mod.rs: feeding values to a Hasher.                        *)
(*                                                                         *)
(* A Hasher is the sequence of the bytes written to it so far; a byte is   *)
(* an integer below ByteModulus.  A usize is UsizeBytes bytes wide and is  *)
(* written least significant byte first.  The elements of a slice are u8.  *)
(***************************************************************************)
ByteModulus == 2^8
HashModulus == 2^16

\* fn write(&mut self, bytes: &[u8]);   "Writes some data into this Hasher"
write(self, bytes) == self \o bytes

RECURSIVE Mix(_, _)
Mix(h, bytes) ==
    IF bytes = <<>> THEN h
    ELSE Mix((h * 33 + Head(bytes) + 1) % HashModulus, Tail(bytes))

\* fn finish(&self) -> u64;   "Completes a round of hashing, producing the
\* output hash generated": a value computed from the bytes written.
finish(self) == Mix(Len(self), self)

\* fn write_only(&mut self, bytes: &[u8]) -> u64 { self.write(bytes); self.finish() }
write_only(self, bytes) ==
    LET written == write(self, bytes)
    IN  [state |-> written, ret |-> finish(written)]

\* fn write_u8(&mut self, i: u8) { self.write(&[i]) }
write_u8(self, i) == write(self, <<i>>)

\* The size_of::<usize>() bytes of i as they lie in memory.
RECURSIVE BytesOf(_, _)
BytesOf(i, width) ==
    IF width = 0 THEN <<>>
    ELSE <<i % ByteModulus>> \o BytesOf(i \div ByteModulus, width - 1)

\* fn write_usize(&mut self, i: usize) {
\*   let bytes = from_raw_parts(&i as *const usize as *const u8, size_of::<usize>());
\*   self.write(bytes); }
write_usize(self, i) == write(self, BytesOf(i, UsizeBytes))

\* impl_write! (usize, write_usize): fn hash(&self, state) { state.$meth(*self) }
usize_hash(self, state) == write_usize(state, self)

\* impl_write! (u8, write_u8): fn hash(&self, state) { state.$meth(*self) }
u8_hash(self, state) == write_u8(state, self)

\* impl_write! (u8, write_u8): fn hash_slice(data, state) {
\*   let newlen = data.len() * ::u8::BYTES; state.write(from_raw_parts(ptr, newlen)) }
u8_hash_slice(data, state) == write(state, data)

\* impl_write! (u8, write_u8): fn hash_slice_one_shot(data, state) -> u64 {
\*   state.write_only(from_raw_parts(ptr, newlen)) }
u8_hash_slice_one_shot(data, state) == write_only(state, data)

\* A slice hash that leaves the length out.
slice_hash_without_len(self, state) == u8_hash_slice(self, state)

\* impl Hash for [T]: fn hash(&self, state) {
\*   self.len().hash(state); Hash::hash_slice(self, state) }
slice_hash(self, state) == u8_hash_slice(self, usize_hash(Len(self), state))

\* impl Hash for [T]: fn hash_one_shot(&self, state) -> u64 {
\*   Hash::hash_slice_one_shot(self, state) }
slice_hash_one_shot(self, state) == u8_hash_slice_one_shot(self, state)


(***************************************************************************)
(* The state: one container c of some kind, one map m, one Hasher (the     *)
(* bytes written to it), and the last call: its name, the receiver before  *)
(* it, its arguments and what it returned.                                 *)
(***************************************************************************)
Call(op, pre, arg, other, ret) ==
    [op |-> op, pre |-> pre, arg |-> arg, other |-> other, ret |-> ret]

NoCall == Call("new", <<>>, 0, <<>>, None)

Init ==
    /\ c \in {[kind |-> k, items |-> <<>>] : k \in Kinds}
    /\ m = <<>>
    /\ hasher = <<>>
    /\ last = NoCall

InitMap ==
    /\ c = [kind |-> "vec", items |-> <<>>]
    /\ m = <<>>
    /\ hasher = <<>>
    /\ last = NoCall

\* ---- calls on the container ----
Insert ==
    \E v \in Vals :
        LET r == insert(c, v) IN
        /\ len(r.c) <= MaxLen
        /\ c' = r.c
        /\ last' = Call("insert", c.items, v, <<>>, r.ret)
        /\ UNCHANGED <<m, hasher>>

Remove ==
    \E v \in Vals :
        LET r == remove(c, v) IN
        /\ c' = r.c
        /\ last' = Call("remove", c.items, v, <<>>, r.ret)
        /\ UNCHANGED <<m, hasher>>

Clear ==
    /\ c' = clear(c)
    /\ last' = Call("clear", c.items, 0, <<>>, None)
    /\ UNCHANGED <<m, hasher>>

IsEmpty ==
    /\ last' = Call("is_empty", c.items, 0, <<>>, is_empty(c))
    /\ UNCHANGED <<c, m, hasher>>

ContainsAll ==
    \E other \in Others :
        /\ last' = Call("contains_all", c.items, 0, other.items, contains_all(c, other).ret)
        /\ UNCHANGED <<c, m, hasher>>

IsDisjoint ==
    \E other \in OtherSets :
        /\ c.kind = "set"
        /\ last' = Call("is_disjoint", c.items, 0, other.items, is_disjoint(c, other))
        /\ UNCHANGED <<c, m, hasher>>

IsSubset ==
    \E other \in OtherSets :
        /\ c.kind = "set"
        /\ last' = Call("is_subset", c.items, 0, other.items, is_subset(c, other))
        /\ UNCHANGED <<c, m, hasher>>

IsSuperset ==
    \E other \in OtherSets :
        /\ c.kind = "set"
        /\ last' = Call("is_superset", c.items, 0, other.items, is_superset(c, other))
        /\ UNCHANGED <<c, m, hasher>>

Truncate ==
    \E length \in 0..(MaxLen + 1) :
        LET r == truncate(c, length) IN
        /\ c.kind = "vec"
        /\ c' = r.c
        /\ last' = Call("truncate", c.items, length, <<>>, r.ret)
        /\ UNCHANGED <<m, hasher>>

Min ==
    /\ c.kind = "sorted"
    /\ last' = Call("min", c.items, 0, <<>>, min(c))
    /\ UNCHANGED <<c, m, hasher>>

Max ==
    /\ c.kind = "sorted"
    /\ last' = Call("max", c.items, 0, <<>>, max(c))
    /\ UNCHANGED <<c, m, hasher>>

Next ==
    \/ Insert
    \/ Remove
    \/ Clear
    \/ IsEmpty
    \/ ContainsAll
    \/ IsDisjoint
    \/ IsSubset
    \/ IsSuperset
    \/ Truncate
    \/ Min
    \/ Max

Spec == Init /\ [][Next]_vars

\* ---- the capacity requests of a MutableCollection ----
Reserve ==
    \E capacity \in 0..(UintModulus - 1) :
        /\ c' = reserve(c, capacity)
        /\ last' = Call("reserve", c.items, capacity, <<>>, None)
        /\ UNCHANGED <<m, hasher>>

ReserveExact ==
    \E capacity \in 0..(UintModulus - 1) :
        /\ c' = reserve_exact(c, capacity)
        /\ last' = Call("reserve_exact", c.items, capacity, <<>>, None)
        /\ UNCHANGED <<m, hasher>>

ReserveAdditional ==
    \E extra \in 0..(UintModulus - 1) :
        LET r == reserve_additional(c, extra) IN
        /\ c' = r.c
        /\ last' = Call("reserve_additional", c.items, extra, <<>>, r.calls)
        /\ UNCHANGED <<m, hasher>>

ShrinkToFit ==
    /\ c' = shrink_to_fit(c)
    /\ last' = Call("shrink_to_fit", c.items, 0, <<>>, None)
    /\ UNCHANGED <<m, hasher>>

NextReserve ==
    \/ Insert
    \/ Reserve
    \/ ReserveExact
    \/ ReserveAdditional
    \/ ShrinkToFit

SpecReserve == Init /\ [][NextReserve]_vars

\* ---- swap, pop and insert_all on the container ----
Swap ==
    \E v \in Vals :
        LET r == swap(c, v) IN
        /\ len(r.c) <= MaxLen
        /\ c' = r.c
        /\ last' = Call("swap", c.items, v, <<>>, r.ret)
        /\ UNCHANGED <<m, hasher>>

Pop ==
    \E v \in Vals :
        LET r == pop(c, v) IN
        /\ c' = r.c
        /\ last' = Call("pop", c.items, v, <<>>, r.ret)
        /\ UNCHANGED <<m, hasher>>

InsertAll ==
    \E other \in Others :
        LET r == insert_all(c, other) IN
        /\ len(r) <= MaxLen
        /\ c' = r
        /\ last' = Call("insert_all", c.items, 0, other.items, None)
        /\ UNCHANGED <<m, hasher>>

NextMutate ==
    \/ Insert
    \/ Swap
    \/ Pop
    \/ Remove
    \/ InsertAll

SpecMutate == Init /\ [][NextMutate]_vars

\* ---- erase and erase_all on the container ----
Erase ==
    \E v \in Vals :
        LET r == erase(c, v) IN
        /\ c' = r.c
        /\ last' = Call("erase", c.items, v, <<>>, r.ret)
        /\ UNCHANGED <<m, hasher>>

EraseAll ==
    \E other \in Others :
        /\ c' = erase_all(c, other)
        /\ last' = Call("erase_all", c.items, 0, other.items, None)
        /\ UNCHANGED <<m, hasher>>

NextErase ==
    \/ Insert
    \/ Erase
    \/ EraseAll

SpecErase == Init /\ [][NextErase]_vars

\* ---- remove_all on the container ----
RemoveAll ==
    \E other \in Others :
        /\ c' = remove_all(c, other)
        /\ last' = Call("remove_all", c.items, 0, other.items, None)
        /\ UNCHANGED <<m, hasher>>

NextRemoveAll ==
    \/ Insert
    \/ RemoveAll

SpecRemoveAll == Init /\ [][NextRemoveAll]_vars

\* ---- the set operations that build a new set ----
InitSet ==
    /\ c = [kind |-> "set", items |-> <<>>]
    /\ m = <<>>
    /\ hasher = <<>>
    /\ last = NoCall

Difference ==
    \E other \in OtherSets :
        /\ last' = Call("difference", c.items, 0, other.items, difference(c, other).items)
        /\ UNCHANGED <<c, m, hasher>>

SymmetricDifference ==
    \E other \in OtherSets :
        /\ last' = Call("symmetric_difference", c.items, 0, other.items,
                        symmetric_difference(c, other).items)
        /\ UNCHANGED <<c, m, hasher>>

Union ==
    \E other \in OtherSets :
        /\ last' = Call("union", c.items, 0, other.items, union(c, other).items)
        /\ UNCHANGED <<c, m, hasher>>

Intersection ==
    \E other \in OtherSets :
        /\ last' = Call("intersection", c.items, 0, other.items, intersection(c, other).items)
        /\ UNCHANGED <<c, m, hasher>>

NextSetOps ==
    \/ Insert
    \/ Difference
    \/ SymmetricDifference
    \/ Union
    \/ Intersection

SpecSetOps == InitSet /\ [][NextSetOps]_vars

\* ---- the queries of a sorted container ----
InitSorted ==
    /\ c = [kind |-> "sorted", items |-> <<>>]
    /\ m = <<>>
    /\ hasher = <<>>
    /\ last = NoCall

\* The closure yields true on the value `stop` (0: on none).
ForeachSorted ==
    \E lo, hi \in {None} \cup {Some(v) : v \in Vals}, stop \in {0} \cup Vals :
        /\ last' = Call("foreach_sorted", c.items, <<lo, hi, stop>>, <<>>,
                        foreach_sorted(c, [x \in Elems(c.items) |-> x = stop], lo, hi))
        /\ UNCHANGED <<c, m, hasher>>

LowerBoundExclusive ==
    \E v \in Vals :
        /\ last' = Call("lower_bound_exclusive", c.items, v, <<>>, lower_bound_exclusive(c, v))
        /\ UNCHANGED <<c, m, hasher>>

LowerBoundInclusive ==
    \E v \in Vals :
        /\ last' = Call("lower_bound_inclusive", c.items, v, <<>>, lower_bound_inclusive(c, v))
        /\ UNCHANGED <<c, m, hasher>>

UpperBoundExclusive ==
    \E v \in Vals :
        /\ last' = Call("upper_bound_exclusive", c.items, v, <<>>, upper_bound_exclusive(c, v))
        /\ UNCHANGED <<c, m, hasher>>

UpperBoundInclusive ==
    \E v \in Vals :
        /\ last' = Call("upper_bound_inclusive", c.items, v, <<>>, upper_bound_inclusive(c, v))
        /\ UNCHANGED <<c, m, hasher>>

NextSorted ==
    \/ Insert
    \/ ForeachSorted
    \/ LowerBoundExclusive
    \/ LowerBoundInclusive
    \/ UpperBoundExclusive
    \/ UpperBoundInclusive

SpecSorted == InitSorted /\ [][NextSorted]_vars

\* ---- a container used as a List ----
InitList ==
    /\ c = [kind |-> "vec", items |-> <<>>]
    /\ m = <<>>
    /\ hasher = <<>>
    /\ last = NoCall

Get ==
    \E index \in 0..MaxLen :
        /\ c.kind = "vec"
        /\ last' = Call("get", c.items, index, <<>>, get(c, index))
        /\ UNCHANGED <<c, m, hasher>>

SwapAt ==
    \E index \in 0..MaxLen, v \in Vals :
        LET r == swap_at(c, index, v) IN
        /\ c.kind = "vec"
        /\ c' = r.c
        /\ last' = Call("swap_at", c.items, <<index, v>>, <<>>, r.ret)
        /\ UNCHANGED <<m, hasher>>

InsertAt ==
    \E index \in 0..MaxLen, v \in Vals :
        LET r == insert_at(c, index, v) IN
        /\ c' = r.c
        /\ last' = Call("insert_at", c.items, <<index, v>>, <<>>, r.ret)
        /\ UNCHANGED <<m, hasher>>

PopAt ==
    \E index \in 0..MaxLen :
        LET r == pop_at(c, index) IN
        /\ c.kind = "vec"
        /\ c' = r.c
        /\ last' = Call("pop_at", c.items, <<index>>, <<>>, r.ret)
        /\ UNCHANGED <<m, hasher>>

ListRemoveAt ==
    \E index \in 0..MaxLen :
        LET r == remove_at(c, index) IN
        /\ c' = r.c
        /\ last' = Call("remove_at", c.items, <<index>>, <<>>, r.ret)
        /\ UNCHANGED <<m, hasher>>

NextList ==
    \/ Insert
    \/ Get
    \/ SwapAt
    \/ InsertAt
    \/ PopAt
    \/ ListRemoveAt

SpecList == InitList /\ [][NextList]_vars

\* ---- a container used as a Stack ----
InitSeq ==
    /\ c = [kind |-> "vec", items |-> <<>>]
    /\ m = <<>>
    /\ hasher = <<>>
    /\ last = NoCall

Push ==
    \E v \in Vals :
        /\ len(c) < MaxLen
        /\ c' = Stack_push(c, v)
        /\ last' = Call("Stack_push", c.items, v, <<>>, None)
        /\ UNCHANGED <<m, hasher>>

StackPop ==
    LET r == Stack_pop(c) IN
    /\ c.kind = "vec"
    /\ c' = r.c
    /\ last' = Call("Stack_pop", c.items, 0, <<>>, r.ret)
    /\ UNCHANGED <<m, hasher>>

Top ==
    /\ c.kind = "vec"
    /\ last' = Call("Stack_top", c.items, 0, <<>>, Stack_top(c))
    /\ UNCHANGED <<c, m, hasher>>

NextStack ==
    \/ Push
    \/ StackPop
    \/ Top

SpecStack == InitSeq /\ [][NextStack]_vars

\* ---- a container used as a Queue ----
Enqueue ==
    \E v \in Vals :
        /\ len(c) < MaxLen
        /\ c' = Queue_enqueue(c, v)
        /\ last' = Call("Queue_enqueue", c.items, v, <<>>, None)
        /\ UNCHANGED <<m, hasher>>

Dequeue ==
    LET r == Queue_dequeue(c) IN
    /\ c.kind = "vec"
    /\ c' = r.c
    /\ last' = Call("Queue_dequeue", c.items, 0, <<>>, r.ret)
    /\ UNCHANGED <<m, hasher>>

Peek ==
    /\ c.kind = "vec"
    /\ last' = Call("Queue_peek", c.items, 0, <<>>, Queue_peek(c))
    /\ UNCHANGED <<c, m, hasher>>

NextQueue ==
    \/ Enqueue
    \/ Dequeue
    \/ Peek

SpecQueue == InitSeq /\ [][NextQueue]_vars

\* ---- a container used as a Deque ----
SeqPush ==
    \E v \in Vals :
        /\ len(c) < MaxLen
        /\ c' = MutableSeq_push(c, v)
        /\ last' = Call("MutableSeq_push", c.items, v, <<>>, None)
        /\ UNCHANGED <<m, hasher>>

PushBack ==
    \E v \in Vals :
        /\ len(c) < MaxLen
        /\ c' = push_back(c, v)
        /\ last' = Call("push_back", c.items, v, <<>>, None)
        /\ UNCHANGED <<m, hasher>>

PushFront ==
    \E v \in Vals :
        /\ len(c) < MaxLen
        /\ c' = push_front(c, v)
        /\ last' = Call("push_front", c.items, v, <<>>, None)
        /\ UNCHANGED <<m, hasher>>

SeqPop ==
    LET r == MutableSeq_pop(c) IN
    /\ c' = r.c
    /\ last' = Call("MutableSeq_pop", c.items, 0, <<>>, r.ret)
    /\ UNCHANGED <<m, hasher>>

PopBack ==
    LET r == pop_back(c) IN
    /\ c.kind = "vec"
    /\ c' = r.c
    /\ last' = Call("pop_back", c.items, 0, <<>>, r.ret)
    /\ UNCHANGED <<m, hasher>>

PopFront ==
    LET r == pop_front(c) IN
    /\ c.kind = "vec"
    /\ c' = r.c
    /\ last' = Call("pop_front", c.items, 0, <<>>, r.ret)
    /\ UNCHANGED <<m, hasher>>

Front ==
    /\ c.kind = "vec"
    /\ last' = Call("front", c.items, 0, <<>>, front(c))
    /\ UNCHANGED <<c, m, hasher>>

Back ==
    /\ c.kind = "vec"
    /\ last' = Call("back", c.items, 0, <<>>, back(c))
    /\ UNCHANGED <<c, m, hasher>>

NextDeque ==
    \/ SeqPush
    \/ PushBack
    \/ PushFront
    \/ SeqPop
    \/ PopBack
    \/ PopFront
    \/ Front
    \/ Back

SpecDeque == InitSeq /\ [][NextDeque]_vars

\* ---- calls on the map ----
MapInsert ==
    \E k \in Keys, v \in MapVals :
        LET r == Map_insert(m, k, v) IN
        /\ m' = r.m
        /\ last' = Call("Map_insert", m, <<k, v>>, <<>>, r.ret)
        /\ UNCHANGED <<c, hasher>>

MapRemove ==
    \E k \in Keys :
        LET r == Map_remove(m, k) IN
        /\ m' = r.m
        /\ last' = Call("Map_remove", m, k, <<>>, r.ret)
        /\ UNCHANGED <<c, hasher>>

MapMin ==
    /\ last' = Call("SortedMap_min", m, 0, <<>>, SortedMap_min(m))
    /\ UNCHANGED <<c, m, hasher>>

MapMax ==
    /\ last' = Call("SortedMap_max", m, 0, <<>>, SortedMap_max(m))
    /\ UNCHANGED <<c, m, hasher>>

MapSwap ==
    \E k \in Keys, v \in MapVals :
        LET r == Map_swap(m, k, v) IN
        /\ m' = r.m
        /\ last' = Call("Map_swap", m, <<k, v>>, <<>>, r.ret)
        /\ UNCHANGED <<c, hasher>>

MapPop ==
    \E k \in Keys :
        LET r == Map_pop(m, k) IN
        /\ m' = r.m
        /\ last' = Call("Map_pop", m, k, <<>>, r.ret)
        /\ UNCHANGED <<c, hasher>>

MapContainsKey ==
    \E k \in Keys :
        /\ last' = Call("Map_contains_key", m, k, <<>>, Map_contains_key(m, k))
        /\ UNCHANGED <<c, m, hasher>>

NextMap ==
    \/ MapInsert
    \/ MapRemove
    \/ MapMin
    \/ MapMax
    \/ MapSwap
    \/ MapPop
    \/ MapContainsKey

SpecMap == InitMap /\ [][NextMap]_vars

\* ---- calls whose target may be absent, on any container or map ----
\* Every container a vector or a sorted container of up to MaxLen values can
\* be, or every map of up to MaxOther entries.
InitAbsent ==
    /\ \/ /\ c \in {[kind |-> "vec", items |-> s] : s \in SeqsUpTo(Vals, MaxLen)}
                \cup {[kind |-> "sorted", items |-> s] :
                        s \in {t \in SeqsUpTo(Vals, MaxLen) :
                                 \A i, j \in DOMAIN t : i < j => t[i] <= t[j]}}
          /\ m = <<>>
       \/ /\ c = [kind |-> "vec", items |-> <<>>]
          /\ m \in {e \in SeqsUpTo(Keys \X MapVals, MaxOther) :
                      \A i, j \in DOMAIN e : i # j => e[i][1] # e[j][1]}
    /\ hasher = <<>>
    /\ last = NoCall

MapFind ==
    \E k \in Keys :
        /\ last' = Call("Map_find", m, k, <<>>, Map_find(m, k))
        /\ UNCHANGED <<c, m, hasher>>

PopMin ==
    LET r == pop_min(c) IN
    /\ c.kind = "sorted"
    /\ c' = r.c
    /\ last' = Call("pop_min", c.items, 0, <<>>, r.ret)
    /\ UNCHANGED <<m, hasher>>

PopMax ==
    LET r == pop_max(c) IN
    /\ c.kind = "sorted"
    /\ c' = r.c
    /\ last' = Call("pop_max", c.items, 0, <<>>, r.ret)
    /\ UNCHANGED <<m, hasher>>

NextAbsent ==
    \/ StackPop
    \/ Top
    \/ Dequeue
    \/ Peek
    \/ PopFront
    \/ PopBack
    \/ Front
    \/ Back
    \/ MapFind
    \/ MapPop
    \/ Pop
    \/ Get
    \/ SwapAt
    \/ PopAt
    \/ Min
    \/ Max
    \/ PopMin
    \/ PopMax

SpecAbsent == InitAbsent /\ [][NextAbsent]_vars

\* ---- calls of the typed allocation functions ----
\* last.arg is <<size_of::<T>(), len>>, last.pre the pointer passed in.
AllocArray ==
    \E size \in 0..MaxSize, n \in 0..(UintModulus - 1), heap \in HeapPtrs \cup {null_mut} :
        /\ last' = Call("alloc_array", null_mut, <<size, n>>, <<>>, alloc_array(size, n, heap))
        /\ UNCHANGED <<c, m, hasher>>

ReallocArray ==
    \E ptr \in HeapPtrs \cup {EMPTY}, size \in 0..MaxSize, old_len \in 1..2,
       n \in 0..(UintModulus - 1), heap \in HeapPtrs \cup {null_mut} :
        /\ (ptr = EMPTY) <=> (size = 0)
        /\ last' = Call("realloc_array", ptr, <<size, n>>, <<>>,
                        realloc_array(ptr, size, old_len, n, heap))
        /\ UNCHANGED <<c, m, hasher>>

ReallocArrayInplace ==
    \E ptr \in HeapPtrs \cup {EMPTY}, size \in 0..MaxSize, old_len \in 1..2,
       n \in 0..(UintModulus - 1), fits \in BOOLEAN :
        /\ (ptr = EMPTY) <=> (size = 0)
        /\ last' = Call("realloc_array_inplace", ptr, <<size, n>>, <<>>,
                        realloc_array_inplace(ptr, size, old_len, n, fits))
        /\ UNCHANGED <<c, m, hasher>>

Dealloc ==
    \E ptr \in HeapPtrs \cup {EMPTY}, size \in 0..MaxSize :
        /\ (ptr = EMPTY) <=> (size = 0)
        /\ last' = Call("dealloc", ptr, <<size, 1>>, <<>>, dealloc(ptr, size))
        /\ UNCHANGED <<c, m, hasher>>

DeallocArray ==
    \E ptr \in HeapPtrs \cup {EMPTY}, size \in 0..MaxSize, n \in 1..(UintModulus - 1) :
        /\ (ptr = EMPTY) <=> (size = 0)
        /\ last' = Call("dealloc_array", ptr, <<size, n>>, <<>>, dealloc_array(ptr, size, n))
        /\ UNCHANGED <<c, m, hasher>>

NextAlloc ==
    \/ AllocArray
    \/ ReallocArray
    \/ ReallocArrayInplace
    \/ Dealloc
    \/ DeallocArray

SpecAlloc == InitSeq /\ [][NextAlloc]_vars

(***************************************************************************)
(* Properties                                                              *)
(***************************************************************************)
\* C1: for every Collection, in every reachable state, is_empty() is true
\* exactly when len() == 0, and that is what a call of is_empty returned.
C1_IsEmptyIffLenZero ==
    /\ is_empty(c) <=> (Len(c.items) = 0)
    /\ last.op = "is_empty" => (last.ret <=> (Len(c.items) = 0))

C1_Witness == last.op = "is_empty" /\ last.ret = FALSE /\ Len(c.items) > 0

\* C2: c.contains_all(other) returns true if and only if every element of
\* other is contained in c, in any traversal order of other.
C2_ContainsAllIffEvery ==
    last.op = "contains_all" =>
        (last.ret <=> \A i \in DOMAIN last.other : contains(c, last.other[i]))

\* C3: a.is_subset(b) returns true if and only if every element of a is
\* contained in b.
C3_IsSubsetIffEvery ==
    last.op = "is_subset" =>
        (last.ret <=> (Elems(c.items) \subseteq Elems(last.other)))

\* C4: a.is_superset(b) returns true if and only if every element of b is
\* contained in a.
C4_IsSupersetIffEvery ==
    last.op = "is_superset" =>
        (last.ret <=> (Elems(last.other) \subseteq Elems(c.items)))

C6_TruncateNoOpWhenSmallEnough ==
    (last.op = "truncate" /\ last.arg >= Len(last.pre)) =>
        (c.items = last.pre /\ last.ret = 0)

\* C7: for a list of n elements and every k <= n, truncate(k) removes only
\* from the back, leaves len() == k with the first k elements unchanged and
\* in order, and returns n - k.
C7_TruncateKeepsPrefix ==
    (last.op = "truncate" /\ last.arg <= Len(last.pre)) =>
        /\ Len(c.items) = last.arg
        /\ c.items = SubSeq(last.pre, 1, last.arg)
        /\ last.ret = Len(last.pre) - last.arg

C7_Witness ==
    /\ last.op = "truncate"
    /\ 0 < last.arg
    /\ last.arg < Len(last.pre)
    /\ last.ret > 0

\* C8: SortedMap min() returns the entry with the smallest key and max() the
\* entry with the largest key, whatever order the unordered foreach visits
\* the entries in; both return None exactly when the map is empty.
C8_MapMinMaxByKey ==
    LET MinEntry == CHOOSE e \in Elems(m) : \A f \in Elems(m) : e[1] <= f[1]
        MaxEntry == CHOOSE e \in Elems(m) : \A f \in Elems(m) : f[1] <= e[1]
    IN
    /\ last.op = "SortedMap_min" =>
           last.ret = (IF m = <<>> THEN None ELSE Some(MinEntry))
    /\ last.op = "SortedMap_max" =>
           last.ret = (IF m = <<>> THEN None ELSE Some(MaxEntry))

\* C9: SortedContainer min() returns the smallest and max() the largest
\* element, each None exactly when the container is empty; min() is the first
\* and max() the last element of an unbounded foreach_sorted traversal.
C9_MinMaxOfSorted ==
    LET all == foreach_sorted(c, [x \in Elems(c.items) |-> FALSE], None, None) IN
    /\ last.op = "min" =>
        /\ is_none(last.ret) <=> (c.items = <<>>)
        /\ is_some(last.ret) =>
            /\ last.ret[1] \in Elems(c.items)
            /\ \A y \in Elems(c.items) : last.ret[1] <= y
            /\ last.ret[1] = all[1]
    /\ last.op = "max" =>
        /\ is_none(last.ret) <=> (c.items = <<>>)
        /\ is_some(last.ret) =>
            /\ last.ret[1] \in Elems(c.items)
            /\ \A y \in Elems(c.items) : y <= last.ret[1]
            /\ last.ret[1] = all[Len(all)]

C9_Witness ==
    /\ last.op = "min"
    /\ Cardinality(Elems(c.items)) >= 2
    /\ last.ret = Some(1)

\* C10 as stated: for every MutableContainer and every value v not equal to
\* any element, after insert(v) len() has increased by exactly 1, insert
\* returned true, and contains(v) is true.
C10_InsertNewAlwaysGrows ==
    (last.op = "insert" /\ last.arg \notin Elems(last.pre)) =>
        /\ Len(c.items) = Len(last.pre) + 1
        /\ last.ret = TRUE
        /\ contains(c, last.arg)

\* C10 amended: for every value v not equal to any element, after insert(v)
\* contains(v) is true; insert returns true and len() has increased by
\* exactly 1 unless the container is a full circular buffer, which evicts its
\* oldest value: then insert returns false and len() is unchanged.
C10_InsertNewGrowsUnlessEvicting ==
    (last.op = "insert" /\ last.arg \notin Elems(last.pre)) =>
        LET evicting == c.kind = "ring" /\ Len(last.pre) >= RingCap IN
        /\ contains(c, last.arg)
        /\ ~evicting => (last.ret = TRUE /\ Len(c.items) = Len(last.pre) + 1)
        /\ evicting => (last.ret = FALSE /\ Len(c.items) = Len(last.pre))

C10_Witness ==
    /\ last.op = "insert"
    /\ last.arg \notin Elems(last.pre)
    /\ last.pre # <<>>
    /\ last.ret = TRUE
    /\ Len(c.items) = Len(last.pre) + 1

\* C11: swap(v) returns None exactly when len() grew by one, and Some(x)
\* exactly when a stored value x was evicted and len() did not grow; insert(v)
\* returns true exactly when swap(v) would return None, i.e. when len() grew.
C11_SwapNoneIffGrew ==
    /\ last.op = "swap" =>
          /\ is_none(last.ret) <=> (Len(c.items) = Len(last.pre) + 1)
          /\ is_some(last.ret) <=>
                (Len(c.items) = Len(last.pre) /\ last.ret # <<>>
                 /\ last.ret[1] \in Elems(last.pre))
    /\ last.op = "insert" =>
          /\ last.ret <=> is_none(swap([kind |-> c.kind, items |-> last.pre], last.arg).ret)
          /\ last.ret <=> (Len(c.items) = Len(last.pre) + 1)

\* a swap on a full circular buffer handed back the evicted oldest value
C11_Witness ==
    /\ last.op = "swap" /\ c.kind = "ring"
    /\ is_some(last.ret) /\ last.ret[1] # last.arg
    /\ Len(c.items) = Len(last.pre)

\* C12: erase(v) on a container holding m copies of v returns exactly m,
\* leaves no element equal to v (a following remove(v) returns false),
\* decreases len() by exactly m and keeps every element not equal to v.
C12_EraseRemovesEveryCopy ==
    last.op = "erase" =>
        LET copies == Cardinality({i \in DOMAIN last.pre : last.pre[i] = last.arg}) IN
        /\ last.ret = copies
        /\ ~contains(c, last.arg)
        /\ ~remove(c, last.arg).ret
        /\ Len(c.items) = Len(last.pre) - copies
        /\ \A w \in Vals \ {last.arg} :
              Cardinality({i \in DOMAIN c.items : c.items[i] = w})
                = Cardinality({i \in DOMAIN last.pre : last.pre[i] = w})

\* an erase took out two or more copies and left another value behind
C12_Witness ==
    /\ last.op = "erase" /\ last.ret >= 2
    /\ c.items # <<>>
    /\ Len(c.items) = Len(last.pre) - last.ret

\* C13: c.remove_all(other) removes, for each value v, exactly
\* min(copies of v in c, copies of v in other) copies of v from c; values not
\* present in other are untouched.
C13_RemoveAllRemovesMinCopies ==
    last.op = "remove_all" =>
        \A v \in Vals :
            LET before == Cardinality({i \in DOMAIN last.pre : last.pre[i] = v})
                asked == Cardinality({i \in DOMAIN last.other : last.other[i] = v})
                after == Cardinality({i \in DOMAIN c.items : c.items[i] = v})
            IN  after = before - (IF before <= asked THEN before ELSE asked)

\* a remove_all with one copy of a value in other took one of two copies out
C13_Witness ==
    /\ last.op = "remove_all"
    /\ \E v \in Vals :
          /\ Cardinality({i \in DOMAIN last.pre : last.pre[i] = v}) = 2
          /\ Cardinality({i \in DOMAIN last.other : last.other[i] = v}) = 1
          /\ Cardinality({i \in DOMAIN c.items : c.items[i] = v}) = 1

\* C14: after c.erase_all(other) no element of c is equal to any element of
\* other, while every element of c not equal to an element of other is still
\* present with its original number of copies.
C14_EraseAllRemovesEveryCopy ==
    last.op = "erase_all" =>
        \A v \in Vals :
            LET before == Cardinality({i \in DOMAIN last.pre : last.pre[i] = v})
                after == Cardinality({i \in DOMAIN c.items : c.items[i] = v})
            IN  IF v \in Elems(last.other) THEN after = 0 ELSE after = before

\* an erase_all took out both copies of a value named once in other and
\* left a value that other does not name
C14_Witness ==
    /\ last.op = "erase_all"
    /\ c.items # <<>>
    /\ \E v \in Elems(last.other) :
          /\ Cardinality({i \in DOMAIN last.pre : last.pre[i] = v}) = 2
          /\ Cardinality({i \in DOMAIN last.other : last.other[i] = v}) = 1
          /\ ~contains(c, v)

\* C15: c.insert_all(other) inserts every element of other into c exactly
\* once and never stops the traversal early: for an unbounded container that
\* tolerates duplicates, c then holds its old elements plus all elements of
\* other and len() has grown by other.len().
C15_InsertAllAddsEveryElement ==
    (last.op = "insert_all" /\ c.kind \in {"vec", "sorted"}) =>
        /\ Len(c.items) = Len(last.pre) + Len(last.other)
        /\ \A v \in Vals :
              Cardinality({i \in DOMAIN c.items : c.items[i] = v})
                = Cardinality({i \in DOMAIN last.pre : last.pre[i] = v})
                  + Cardinality({i \in DOMAIN last.other : last.other[i] = v})
        /\ c.kind = "vec" => c.items = last.pre \o last.other

\* an insert_all moved two elements into a container that was not empty
C15_Witness ==
    /\ last.op = "insert_all" /\ c.kind = "vec"
    /\ Len(last.other) = 2 /\ last.pre # <<>>
    /\ Len(c.items) = Len(last.pre) + 2

\* C16: for a MutableSet s, s.insert_all(t) acts as union_with: s then holds
\* exactly the values that were in s or in t, no two elements of s are equal
\* and len() is the number of distinct values of the union; no two elements
\* are equal after any sequence of insert, swap, insert_all, pop and remove.
C16_SetInsertAllIsUnion ==
    c.kind = "set" =>
        /\ NoDup(c.items)
        /\ last.op = "insert_all" =>
              /\ Elems(c.items) = Elems(last.pre) \cup Elems(last.other)
              /\ Len(c.items) = Cardinality(Elems(last.pre) \cup Elems(last.other))

\* an insert_all into a set brought one new value and one it already held
C16_Witness ==
    /\ c.kind = "set" /\ last.op = "insert_all"
    /\ Elems(last.other) \ Elems(last.pre) # {}
    /\ Elems(last.other) \cap Elems(last.pre) # {}
    /\ Len(c.items) = Len(last.pre) + 1

\* C17: for a key k not in the map and values v, v2: swap(k, v) returns
\* None; a following swap(k, v2) returns Some(v); a following pop(k) returns
\* Some(v2); a following pop(k) returns None; throughout, k maps to at most
\* one value and the entries under other keys are unchanged.  Every swap and
\* pop that was made returned the value found under the key before it.
C17_MapSwapPopRoundTrip ==
    /\ \A k \in Keys \ MapKeys(m) : \A v, v2 \in MapVals :
          LET s1 == Map_swap(m, k, v)
              s2 == Map_swap(s1.m, k, v2)
              p1 == Map_pop(s2.m, k)
              p2 == Map_pop(p1.m, k)
              AtMostOne(mm) == Cardinality({i \in DOMAIN mm : mm[i][1] = k}) <= 1
              OthersKept(mm) == \A j \in Keys \ {k} : Map_find(mm, j) = Map_find(m, j)
          IN  /\ s1.ret = None /\ Map_find(s1.m, k) = Some(v)
              /\ s2.ret = Some(v) /\ Map_find(s2.m, k) = Some(v2)
              /\ p1.ret = Some(v2) /\ Map_find(p1.m, k) = None
              /\ p2.ret = None
              /\ \A mm \in {s1.m, s2.m, p1.m, p2.m} : AtMostOne(mm) /\ OthersKept(mm)
    /\ last.op \in {"Map_swap", "Map_pop"} =>
          LET k == IF last.op = "Map_swap" THEN last.arg[1] ELSE last.arg IN
          /\ last.ret = Map_find(last.pre, k)
          /\ Map_find(m, k) = (IF last.op = "Map_swap" THEN Some(last.arg[2]) ELSE None)
          /\ Cardinality({i \in DOMAIN m : m[i][1] = k}) <= 1
          /\ \A j \in Keys \ {k} : Map_find(m, j) = Map_find(last.pre, j)

\* a second swap under a key handed back the first value, with another key
\* in the map
C17_Witness ==
    /\ last.op = "Map_swap"
    /\ is_some(last.ret) /\ last.ret[1] # last.arg[2]
    /\ Map_find(m, last.arg[1]) = Some(last.arg[2])
    /\ Len(m) >= 2

\* C18: insert(k, v) returns true exactly when k was not already in the map
\* and in either case leaves find(k) == Some(v); remove(k) returns true
\* exactly when k was present and afterwards contains_key(k) is false;
\* contains_key(k) always equals find(k).is_some().
C18_MapInsertRemoveContainsKey ==
    /\ last.op = "Map_insert" =>
          /\ last.ret <=> (last.arg[1] \notin MapKeys(last.pre))
          /\ Map_find(m, last.arg[1]) = Some(last.arg[2])
    /\ last.op = "Map_remove" =>
          /\ last.ret <=> (last.arg \in MapKeys(last.pre))
          /\ ~Map_contains_key(m, last.arg)
    /\ last.op = "Map_contains_key" =>
          last.ret = is_some(Map_find(m, last.arg))
    /\ \A k \in Keys :
          /\ Map_contains_key(m, k) = is_some(Map_find(m, k))
          /\ Map_contains_key(m, k) <=> (\E i \in DOMAIN m : m[i][1] = k)

\* an insert under a key already in the map returned false and replaced the
\* value
C18_Witness ==
    /\ last.op = "Map_insert" /\ last.ret = FALSE
    /\ Map_find(last.pre, last.arg[1]) # Some(last.arg[2])
    /\ Map_find(m, last.arg[1]) = Some(last.arg[2])

\* C19: after any sequence of push and pop, pop() returns the most recently
\* pushed value that has not yet been popped, and None exactly when the stack
\* is empty: a pop after a push hands the pushed value back and leaves the
\* stack as it was before the push, and a pop that was made took the value
\* whose push rebuilds the stack it was made on.  On an empty stack,
\* push(a); push(b) is followed by Some(b), Some(a), None.
C19_StackPopsMostRecentPush ==
    /\ is_none(Stack_pop(c).ret) <=> is_empty(c)
    /\ \A v \in Vals : Stack_pop(Stack_push(c, v)) = [c |-> c, ret |-> Some(v)]
    /\ last.op = "Stack_pop" =>
          /\ is_none(last.ret) <=> (last.pre = <<>>)
          /\ is_none(last.ret) => c.items = <<>>
          /\ is_some(last.ret) => Stack_push(c, last.ret[1]).items = last.pre
    /\ c.items = <<>> =>
          \A a, b \in Vals :
              LET p1 == Stack_pop(Stack_push(Stack_push(c, a), b))
                  p2 == Stack_pop(p1.c)
                  p3 == Stack_pop(p2.c)
              IN  p1.ret = Some(b) /\ p2.ret = Some(a) /\ p3.ret = None

\* a pop took the newer of two different values and left the older one
C19_Witness ==
    /\ last.op = "Stack_pop"
    /\ Len(last.pre) >= 2
    /\ last.ret = Some(last.pre[Len(last.pre)])
    /\ last.pre[1] # last.pre[Len(last.pre)]
    /\ c.items = SubSeq(last.pre, 1, Len(last.pre) - 1)

\* C20: after any sequence of enqueue and dequeue, dequeue() returns the
\* earliest enqueued value that has not yet been removed, and None exactly
\* when the queue is empty: on a queue that is not empty, dequeue gives the
\* same value whether or not another value is enqueued first, and the two
\* orders leave the same queue; on an empty queue enqueue(a); enqueue(b) is
\* followed by Some(a), Some(b), None.
C20_QueueDequeuesEarliestEnqueue ==
    /\ is_none(Queue_dequeue(c).ret) <=> is_empty(c)
    /\ \A v \in Vals :
          LET d == Queue_dequeue(Queue_enqueue(c, v)) IN
          IF is_empty(c)
          THEN d = [c |-> c, ret |-> Some(v)]
          ELSE /\ d.ret = Queue_dequeue(c).ret
               /\ d.c = Queue_enqueue(Queue_dequeue(c).c, v)
    /\ last.op = "Queue_dequeue" =>
          /\ is_none(last.ret) <=> (last.pre = <<>>)
          /\ is_none(last.ret) => c.items = <<>>
          /\ is_some(last.ret) => last.pre = <<last.ret[1]>> \o c.items
    /\ c.items = <<>> =>
          \A a, b \in Vals :
              LET d1 == Queue_dequeue(Queue_enqueue(Queue_enqueue(c, a), b))
                  d2 == Queue_dequeue(d1.c)
                  d3 == Queue_dequeue(d2.c)
              IN  d1.ret = Some(a) /\ d2.ret = Some(b) /\ d3.ret = None

\* a dequeue took the older of two different values and left the newer one
C20_Witness ==
    /\ last.op = "Queue_dequeue"
    /\ Len(last.pre) >= 2
    /\ last.ret = Some(last.pre[1])
    /\ last.pre[1] # last.pre[Len(last.pre)]
    /\ c.items = Tail(last.pre)

\* C21: for sets S and T with no common element, S.union(T).len() ==
\* S.len() + T.len() and S.intersection(T).is_empty(); union, intersection,
\* difference and symmetric_difference return a new set (no two elements
\* equal) and leave S and T unchanged.
C21_DisjointUnionAndIntersection ==
    last.op \in {"difference", "symmetric_difference", "union", "intersection"} =>
        LET S == [kind |-> "set", items |-> last.pre]
            T == [kind |-> "set", items |-> last.other]
        IN  /\ c = S
            /\ NoDup(last.ret)
            /\ (Elems(S.items) \cap Elems(T.items) = {}) =>
                  /\ len(union(S, T)) = len(S) + len(T)
                  /\ Elems(union(S, T).items) = Elems(S.items) \cup Elems(T.items)
                  /\ is_empty(intersection(S, T))
                  /\ last.op = "union" => Len(last.ret) = len(S) + len(T)
                  /\ last.op = "intersection" => last.ret = <<>>

\* the union of two disjoint sets that are not empty was built
C21_Witness ==
    /\ last.op = "union"
    /\ last.pre # <<>> /\ last.other # <<>>
    /\ Elems(last.pre) \cap Elems(last.other) = {}
    /\ Len(last.ret) = Len(last.pre) + Len(last.other)

\* C22: foreach_sorted(visit, min, max) visits exactly the elements e with
\* min <= e <= max (an absent bound is unbounded), each once, in increasing
\* order, and never calls visit again after it first returns true; on
\* {1, 3, 5, 7} with bounds (Some(2), Some(6)) it yields exactly 3 then 5.
C22_ForeachSortedVisitsRange ==
    /\ last.op = "foreach_sorted" =>
          LET lo == last.arg[1]
              hi == last.arg[2]
              stop == last.arg[3]
              visited == last.ret
              Copies(s, v) == Cardinality({i \in DOMAIN s : s[i] = v})
              stopped == \E i \in DOMAIN visited : visited[i] = stop
          IN  /\ c.items = last.pre
              /\ \A i \in DOMAIN visited :
                    /\ is_some(lo) => lo[1] <= visited[i]
                    /\ is_some(hi) => visited[i] <= hi[1]
              /\ \A i, j \in DOMAIN visited : i < j => visited[i] <= visited[j]
              /\ \A i \in DOMAIN visited : visited[i] = stop => i = Len(visited)
              /\ \A v \in Vals :
                    Copies(visited, v) =
                        IF ~InRange(v, lo, hi) THEN 0
                        ELSE IF ~stopped \/ v < stop THEN Copies(last.pre, v)
                        ELSE IF v = stop THEN 1
                        ELSE 0
    /\ LET C == [kind |-> "sorted", items |-> <<1, 3, 5, 7>>] IN
       foreach_sorted(C, [x \in Elems(C.items) |-> FALSE], Some(2), Some(6)) = <<3, 5>>

\* a traversal with both bounds left out the element below the range and
\* was stopped by the closure before the last element in range
C22_Witness ==
    /\ last.op = "foreach_sorted"
    /\ last.arg = <<Some(2), Some(3), 2>>
    /\ last.pre = <<1, 2, 3>>
    /\ last.ret = <<2>>

\* C23: for every sorted container and probe value v, lower_bound_exclusive(v)
\* returned the largest element < v, lower_bound_inclusive(v) the largest
\* element <= v, upper_bound_exclusive(v) the smallest element > v and
\* upper_bound_inclusive(v) the smallest element >= v, each None exactly when
\* there is no such element; the queries do not modify the container.
C23_BoundQueriesNearest ==
    last.op \in {"lower_bound_exclusive", "lower_bound_inclusive",
                 "upper_bound_exclusive", "upper_bound_inclusive"} =>
        LET v == last.arg
            below == last.op \in {"lower_bound_exclusive", "lower_bound_inclusive"}
            On(x) == CASE last.op = "lower_bound_exclusive" -> x < v
                       [] last.op = "lower_bound_inclusive" -> x <= v
                       [] last.op = "upper_bound_exclusive" -> x > v
                       [] OTHER -> x >= v
            side == {x \in Elems(last.pre) : On(x)}
        IN  /\ c.items = last.pre
            /\ is_none(last.ret) <=> (side = {})
            /\ is_some(last.ret) =>
                  /\ last.ret[1] \in side
                  /\ \A y \in side : IF below THEN y <= last.ret[1] ELSE last.ret[1] <= y

\* C24: insert_at(i, v) and swap_at(i, v) take effect exactly when i < len():
\* insert_at returns true, swap_at returns the prior value, len() and all
\* other positions are unchanged; remove_at(i) and pop_at(i) take effect
\* exactly when i < len(): len() decreases by one and every element at a
\* larger index moves down by one; when i >= len() they return false or None
\* and the list is unchanged.
C24_IndexedOpsInBoundsOnly ==
    last.op \in {"swap_at", "insert_at", "pop_at", "remove_at"} =>
        LET i == last.arg[1]
            old == last.pre
            inb == i < Len(old)
            acted == IF last.op \in {"swap_at", "pop_at"} THEN is_some(last.ret) ELSE last.ret
        IN  /\ acted <=> inb
            /\ ~inb => c.items = old
            /\ (inb /\ last.op \in {"swap_at", "pop_at"}) => last.ret = Some(old[i + 1])
            /\ (inb /\ last.op \in {"swap_at", "insert_at"}) =>
                  /\ Len(c.items) = Len(old)
                  /\ c.items[i + 1] = last.arg[2]
                  /\ \A j \in DOMAIN old : j # i + 1 => c.items[j] = old[j]
            /\ (inb /\ last.op \in {"pop_at", "remove_at"}) =>
                  /\ Len(c.items) = Len(old) - 1
                  /\ \A j \in DOMAIN c.items :
                        c.items[j] = IF j < i + 1 THEN old[j] ELSE old[j + 1]

\* an insert_at in the middle of a list of three replaced the value there
C24_Witness ==
    /\ last.op = "insert_at" /\ last.ret = TRUE
    /\ Len(last.pre) = 3 /\ last.arg[1] = 1
    /\ last.pre[2] # last.arg[2]
    /\ c.items = [last.pre EXCEPT ![2] = last.arg[2]]

\* C25: values added with push or push_back leave through pop_front in
\* insertion order and through pop or pop_back in reverse insertion order;
\* values added with push_front leave through pop_front in reverse insertion
\* order; front() and back() equal what pop_front() and pop_back() would
\* return next; push_back(x) behaves exactly as push(x) and pop_back() as
\* pop(); every pop returns None exactly when the deque is empty.
C25_DequeOrder ==
    /\ pop_back(c) = MutableSeq_pop(c)
    /\ front(c) = pop_front(c).ret
    /\ back(c) = pop_back(c).ret
    /\ is_none(pop_front(c).ret) <=> is_empty(c)
    /\ is_none(pop_back(c).ret) <=> is_empty(c)
    /\ is_none(MutableSeq_pop(c).ret) <=> is_empty(c)
    /\ \A v \in Vals :
          /\ push_back(c, v) = MutableSeq_push(c, v)
          /\ pop_back(push_back(c, v)) = [c |-> c, ret |-> Some(v)]
          /\ MutableSeq_pop(MutableSeq_push(c, v)) = [c |-> c, ret |-> Some(v)]
          /\ pop_front(push_front(c, v)) = [c |-> c, ret |-> Some(v)]
          /\ LET d == pop_front(push_back(c, v)) IN
             IF is_empty(c)
             THEN d = [c |-> c, ret |-> Some(v)]
             ELSE /\ d.ret = pop_front(c).ret
                  /\ d.c = push_back(pop_front(c).c, v)
          /\ LET d == pop_back(push_front(c, v)) IN
             IF is_empty(c)
             THEN d = [c |-> c, ret |-> Some(v)]
             ELSE /\ d.ret = pop_back(c).ret
                  /\ d.c = push_front(pop_back(c).c, v)
    /\ last.op \in {"pop_front", "pop_back", "MutableSeq_pop"} =>
          /\ is_none(last.ret) <=> (last.pre = <<>>)
          /\ is_none(last.ret) => c.items = <<>>
          /\ (is_some(last.ret) /\ last.op = "pop_front") =>
                push_front(c, last.ret[1]).items = last.pre
          /\ (is_some(last.ret) /\ last.op # "pop_front") =>
                push_back(c, last.ret[1]).items = last.pre
    /\ c.items = <<>> =>
          LET q == MutableSeq_push(MutableSeq_push(MutableSeq_push(c, 1), 2), 3)
              q1 == pop_front(q)
              q2 == pop_front(q1.c)
              q3 == pop_front(q2.c)
              s == push_front(push_front(push_front(c, 1), 2), 3)
              s1 == pop_front(s)
              s2 == pop_front(s1.c)
              s3 == pop_front(s2.c)
              d == MutableSeq_push(MutableSeq_push(push_front(push_front(c, 2), 1), 3), 4)
              f1 == pop_front(d)
              b1 == MutableSeq_pop(f1.c)
              f2 == pop_front(b1.c)
              b2 == MutableSeq_pop(f2.c)
          IN  /\ <<q1.ret, q2.ret, q3.ret>> = <<Some(1), Some(2), Some(3)>>
              /\ <<s1.ret, s2.ret, s3.ret>> = <<Some(3), Some(2), Some(1)>>
              /\ <<f1.ret, b1.ret, f2.ret, b2.ret>> = <<Some(1), Some(4), Some(2), Some(3)>>
              /\ is_empty(q3.c) /\ is_empty(s3.c) /\ is_empty(b2.c)

\* a pop_front took the first of two or more values and left a different
\* one at the back
C25_Witness ==
    /\ last.op = "pop_front"
    /\ Len(last.pre) >= 2
    /\ last.ret = Some(last.pre[1])
    /\ last.pre[1] # last.pre[Len(last.pre)]
    /\ c.items = Tail(last.pre)
    /\ back(c) = Some(last.pre[Len(last.pre)])

\* C26: every operation whose target is absent returned an explicit None and
\* left the contents and len() unchanged: pop/top on an empty Stack,
\* dequeue/peek on an empty Queue, pop_front/pop_back/front/back on an empty
\* Deque, find/pop of a key not in a Map, pop(value) of a value not in a
\* container, get/swap_at/pop_at with index >= len(), and
\* min/max/pop_min/pop_max on an empty sorted container.
C26_AbsentTargetGivesNone ==
    LET onEmpty == {"Stack_pop", "Stack_top", "Queue_dequeue", "Queue_peek",
                    "pop_front", "pop_back", "front", "back",
                    "min", "max", "pop_min", "pop_max"}
        absent ==
            CASE last.op \in onEmpty -> last.pre = <<>>
              [] last.op = "pop" -> last.arg \notin Elems(last.pre)
              [] last.op = "get" -> last.arg >= Len(last.pre)
              [] last.op \in {"swap_at", "pop_at"} -> last.arg[1] >= Len(last.pre)
              [] last.op \in {"Map_find", "Map_pop"} -> last.arg \notin MapKeys(last.pre)
              [] OTHER -> FALSE
    IN  absent =>
            /\ last.ret = None
            /\ IF last.op \in {"Map_find", "Map_pop"}
               THEN m = last.pre
               ELSE c.items = last.pre /\ Len(c.items) = Len(last.pre)

\* a pop of a value that a container of three does not hold returned None
C26_Witness ==
    /\ last.op = "pop"
    /\ Len(last.pre) = 3 /\ last.arg \notin Elems(last.pre)
    /\ last.ret = None /\ c.items = last.pre

\* C27: contains_all(other) short-circuits on the first absent element: the
\* elements contains was called on are those of other up to and including
\* the first one not contained in self (all of other if every one is
\* contained), so the traversal continues while elements are found present
\* and stops once one is found absent.
C27_ContainsAllStopsAtFirstAbsent ==
    last.op = "contains_all" =>
        LET other == [kind |-> "vec", items |-> last.other]
            calls == contains_all(c, other).calls
            absentAt == {i \in DOMAIN last.other : ~contains(c, last.other[i])}
            expected == IF absentAt = {} THEN last.other
                        ELSE SubSeq(last.other, 1,
                                    CHOOSE i \in absentAt : \A j \in absentAt : i <= j)
        IN  calls = expected

\* C28: reserve_additional(extra) calls reserve exactly once with capacity
\* equal to the mathematical sum len() + extra, for all len() and extra
\* representable as uint; reserve, reserve_exact, reserve_additional and
\* shrink_to_fit never change the contents or len().
C28_ReserveAdditionalExactSum ==
    /\ last.op \in {"reserve", "reserve_exact", "reserve_additional", "shrink_to_fit"} =>
          c.items = last.pre
    /\ last.op = "reserve_additional" =>
          last.ret = <<Len(last.pre) + last.arg>>

\* C29: alloc_array, realloc_array and realloc_array_inplace panic exactly
\* when the requested len is 0; for a zero-sized element type and len >= 1
\* they never call the heap (alloc_array returns the non-null EMPTY pointer,
\* realloc_array the given pointer, realloc_array_inplace Ok, dealloc and
\* dealloc_array do nothing); for a non-zero-sized type they request exactly
\* size_of(T) * len bytes and never return a null pointer (out of memory
\* aborts instead).
C29_AllocArrayContract ==
    last.op \in {"alloc_array", "realloc_array", "realloc_array_inplace",
                 "dealloc", "dealloc_array"} =>
        LET size == last.arg[1]
            n == last.arg[2]
            r == last.ret
            allocating == last.op \in {"alloc_array", "realloc_array", "realloc_array_inplace"}
        IN  /\ allocating => ((r.outcome = "panic") <=> (n = 0))
            /\ ~allocating => r.outcome = "ok"
            /\ (size = 0 /\ n >= 1) =>
                  /\ r.calls = <<>>
                  /\ r.outcome = "ok"
                  /\ last.op = "alloc_array" => (r.ret = EMPTY /\ EMPTY # null_mut)
                  /\ last.op = "realloc_array" => r.ret = last.pre
                  /\ last.op = "realloc_array_inplace" => r.ret = "Ok"
            /\ (allocating /\ size # 0 /\ n >= 1) =>
                  /\ Len(r.calls) = 1
                  /\ r.calls[1][2] = size * n
                  /\ (last.op # "realloc_array_inplace" /\ r.outcome = "ok") =>
                        r.ret # null_mut
                  /\ (last.op # "realloc_array_inplace") =>
                        ((r.outcome = "abort") <=> (r.ret = null_mut))


\* ---- slices fed to a Hasher ----
Slices == SeqsUpTo(Vals, MaxOther)

\* let mut s = SipHasher::new();
NewHasher ==
    /\ hasher # <<>>
    /\ hasher' = <<>>
    /\ last' = NoCall
    /\ UNCHANGED <<c, m>>

\* At most one slice has been fed to the hasher since it was made.
RoomForSlice ==
    \/ hasher = <<>>
    \/ last.op \in {"hash", "hash_one_shot"} /\ last.pre = <<>>

HashSlice ==
    \E data \in Slices :
        /\ RoomForSlice
        /\ hasher' = slice_hash(data, hasher)
        /\ last' = Call("hash", hasher, data, <<>>, None)
        /\ UNCHANGED <<c, m>>

HashOneShot ==
    \E data \in Slices :
        /\ RoomForSlice
        /\ LET r == slice_hash_one_shot(data, hasher)
           IN  /\ hasher' = r.state
               /\ last' = Call("hash_one_shot", hasher, data, <<>>, <<r.ret>>)
        /\ UNCHANGED <<c, m>>

Finish ==
    /\ last.op # "finish"
    /\ last' = Call("finish", hasher, 0, <<>>, <<finish(hasher)>>)
    /\ UNCHANGED <<c, m, hasher>>

NextHash ==
    \/ NewHasher
    \/ HashSlice
    \/ HashOneShot
    \/ Finish

SpecHash == InitSeq /\ [][NextHash]_vars

\* The usize whose bytes in memory are `bytes`.
RECURSIVE UsizeOf(_)
UsizeOf(bytes) ==
    IF bytes = <<>> THEN 0
    ELSE Head(bytes) + ByteModulus * UsizeOf(Tail(bytes))

Malformed == <<ByteModulus>>

\* The slices read back from a stream: a length, that many elements, and so
\* on to the end of the stream.
RECURSIVE Decode(_)
Decode(stream) ==
    IF stream = <<>> THEN <<>>
    ELSE IF Len(stream) < UsizeBytes THEN <<Malformed>>
    ELSE LET n == UsizeOf(SubSeq(stream, 1, UsizeBytes))
         IN  IF Len(stream) < UsizeBytes + n THEN <<Malformed>>
             ELSE <<SubSeq(stream, UsizeBytes + 1, UsizeBytes + n)>>
                    \o Decode(SubSeq(stream, UsizeBytes + n + 1, Len(stream)))

\* The hasher after each element of data was written to it as one byte.
RECURSIVE WriteEach(_, _)
WriteEach(stream, data) ==
    IF data = <<>> THEN stream
    ELSE WriteEach(write_u8(stream, Head(data)), Tail(data))

\* C30: hash() on a slice writes the slice's length and then its elements, so
\* the stream written by hashing two slices one after the other can be read
\* back into exactly those two slices, and ([a], [a, a]) writes a different
\* stream than ([a, a], [a]); hash_one_shot() on a slice writes only the
\* elements, without the length, and returns what finish() returns after
\* those element bytes were written.
C30_SliceHashLengthPrefixed ==
    /\ last.op = "hash" =>
          LET p == Len(last.pre)
              n == Len(last.arg)
          IN  /\ Len(hasher) = p + UsizeBytes + n
              /\ SubSeq(hasher, 1, p) = last.pre
              /\ UsizeOf(SubSeq(hasher, p + 1, p + UsizeBytes)) = n
              /\ SubSeq(hasher, p + UsizeBytes + 1, Len(hasher)) = last.arg
              /\ \A t1 \in Slices :
                    last.pre = slice_hash(t1, <<>>) => Decode(hasher) = <<t1, last.arg>>
              /\ \A a \in Vals :
                    (last.pre = slice_hash(<<a>>, <<>>) /\ last.arg = <<a, a>>) =>
                        hasher # slice_hash(<<a>>, slice_hash(<<a, a>>, <<>>))
    /\ last.op = "hash_one_shot" =>
          /\ hasher = last.pre \o last.arg
          /\ last.ret = <<finish(WriteEach(last.pre, last.arg))>>

\* [1] and then [1, 1] were hashed into a new hasher, and the other order
\* would have written something else.
C30_Witness ==
    /\ last.op = "hash"
    /\ last.pre = slice_hash(<<1>>, <<>>)
    /\ last.arg = <<1, 1>>
    /\ hasher # slice_hash(<<1>>, slice_hash(<<1, 1>>, <<>>))

====
